---- MODULE Spec2Model ----
(***************************************************************************)
(* Model of task_app: the Task entity (models.py) and the TaskRepository   *)
(* (repository.py).  Two repository objects may be bound to the same       *)
(* backing file "tasks.json"; every operation of a repository runs to      *)
(* completion before the next one starts (the code is synchronous).        *)
(*                                                                         *)
(* Python values are tagged records so that None, the _SENTINEL object,    *)
(* str, date and bool stay distinguishable.  A str is a sequence of        *)
(* one-character strings; " " is the whitespace character.  A date is its  *)
(* day ordinal, a datetime is the number of clock ticks.                   *)
(*                                                                         *)
(* datetime.utcnow() is read once by add_task and once by an update_task   *)
(* that changed a field; each read returns the clock and advances it, so   *)
(* the timestamps of two stamping calls differ.                            *)
(***************************************************************************)
EXTENDS Integers, Sequences, FiniteSets, TLC

\* ---------------------------------------------------------------- bounds
MaxId == 2      \* add_task is enabled while _next_id <= MaxId
MaxTime == 3    \* utcnow() can be read while the clock is below MaxTime
MaxDate == 2    \* calendar dates are the day ordinals 1..MaxDate

\* ---------------------------------------------------------------- values
NoneV == [kind |-> "None"]
_SENTINEL == [kind |-> "_SENTINEL"]
StrV(s) == [kind |-> "str", chars |-> s]
DateV(n) == [kind |-> "date", ordinal |-> n]
BoolV(b) == [kind |-> "bool", value |-> b]

\* Python truthiness of the values the code tests with `if x` / `x or y`.
Truthy(v) ==
  CASE v.kind = "None" -> FALSE
    [] v.kind = "str" -> v.chars # <<>>
    [] v.kind = "bool" -> v.value
    [] OTHER -> TRUE

\* x or y
py_or(x, y) == IF Truthy(x) THEN x ELSE y

\* isinstance(v, date)
isinstance_date(v) == v.kind = "date"

RECURSIVE lstrip(_)
lstrip(s) == IF s # <<>> /\ Head(s) = " " THEN lstrip(Tail(s)) ELSE s

RECURSIVE rstrip(_)
rstrip(s) ==
  IF s # <<>> /\ s[Len(s)] = " " THEN rstrip(SubSeq(s, 1, Len(s) - 1)) ELSE s

\* str.strip()
strip(s) == rstrip(lstrip(s))

\* date.isoformat() / date.fromisoformat(): the ISO text of a date is a
\* non-empty str that names the day.
date_isoformat(d) == [kind |-> "isodate", day |-> d.ordinal]
date_fromisoformat(s) == DateV(s.day)

\* datetime.isoformat() / datetime.fromisoformat()
datetime_isoformat(t) == [kind |-> "isodatetime", ticks |-> t]
datetime_fromisoformat(s) == s.ticks

\* ---------------------------------------------------------------- Task
Task(id, title, description, completed, due_date, created_at, updated_at) ==
  [id |-> id, title |-> title, description |-> description,
   completed |-> completed, due_date |-> due_date,
   created_at |-> created_at, updated_at |-> updated_at]

\* variant: the due date is written as null
due_date_to_dict_none(task) == NoneV
due_date_to_dict(task) ==
  IF Truthy(task.due_date) THEN date_isoformat(task.due_date) ELSE NoneV

to_dict(task) ==
  [id |-> task.id, title |-> task.title, description |-> task.description,
   completed |-> task.completed, due_date |-> due_date_to_dict(task),
   created_at |-> datetime_isoformat(task.created_at),
   updated_at |-> datetime_isoformat(task.updated_at)]

from_dict(payload) ==
  LET due == payload.due_date IN
  Task(payload.id, payload.title, payload.description, payload.completed,
       IF Truthy(due) THEN date_fromisoformat(due) ELSE NoneV,
       datetime_fromisoformat(payload.created_at),
       datetime_fromisoformat(payload.updated_at))

\* ---------------------------------------------------------------- dict
\* self._tasks is a dict: a sequence of tasks in insertion order, one per key.
dict_keys(d) == {d[k].id : k \in DOMAIN d}
dict_has(d, key) == key \in dict_keys(d)
dict_get(d, key) == d[CHOOSE k \in DOMAIN d : d[k].id = key]

\* d[key] = task
dict_set(d, key, task) ==
  IF dict_has(d, key)
  THEN [k \in DOMAIN d |-> IF d[k].id = key THEN task ELSE d[k]]
  ELSE Append(d, task)

\* del d[key]
\* variant: the key stays
dict_del_keep(d, key) == d
dict_del(d, key) == SelectSeq(d, LAMBDA t : t.id # key)

\* max(d): the largest key
dict_max(d) == CHOOSE m \in dict_keys(d) : \A k \in dict_keys(d) : k <= m

\* sorted(tasks, key=lambda item: item.id): a stable insertion sort
RECURSIVE insert_by_id(_, _)
insert_by_id(s, t) ==
  IF s = <<>> THEN <<t>>
  ELSE IF s[Len(s)].id <= t.id THEN Append(s, t)
  ELSE Append(insert_by_id(SubSeq(s, 1, Len(s) - 1), t), s[Len(s)])

RECURSIVE sorted_by_id(_)
sorted_by_id(s) ==
  IF s = <<>> THEN <<>>
  ELSE insert_by_id(sorted_by_id(SubSeq(s, 1, Len(s) - 1)), s[Len(s)])

\* ---------------------------------------------------------------- list_tasks
completed_matches(task, completed) == task.completed = completed.value

\* variant: < in place of <=
due_matches_strict(task, due_before) ==
  task.due_date # NoneV /\ task.due_date.ordinal < due_before.ordinal
due_matches(task, due_before) ==
  task.due_date # NoneV /\ task.due_date.ordinal <= due_before.ordinal

list_tasks(d, completed, due_before) ==
  LET t1 == IF completed # NoneV
            THEN SelectSeq(d, LAMBDA t : completed_matches(t, completed))
            ELSE d
      t2 == IF due_before # NoneV
            THEN SelectSeq(t1, LAMBDA t : due_matches(t, due_before))
            ELSE t1
  IN sorted_by_id(t2)

\* ---------------------------------------------------------------- file
StoragePath == "tasks.json"
NoPath == "None"
NoFile == [exists |-> FALSE, payload |-> <<>>]

\* open(path, "w") followed by json.dump: the payload replaces the content
\* variant: open(path, "a")
write_append(old, serialised) == old.payload \o serialised
write_file(old, serialised) == serialised

\* _save: the file after the call
save(path, d, old) ==
  IF path = NoPath THEN old
  ELSE LET l == list_tasks(d, NoneV, NoneV)
           serialised == [k \in DOMAIN l |-> to_dict(l[k])]
       IN [exists |-> TRUE, payload |-> write_file(old, serialised)]

RECURSIVE load_items(_, _)
load_items(d, payload) ==
  IF payload = <<>> THEN d
  ELSE LET task == from_dict(Head(payload))
       IN load_items(dict_set(d, task.id, task), Tail(payload))

\* variant: len(self._tasks) + 1
load_next_id_len(d) == IF d # <<>> THEN Len(d) + 1 ELSE 1
load_next_id(d) == IF d # <<>> THEN dict_max(d) + 1 ELSE 1

\* __init__ followed by _load: the [tasks, next_id] of the new object
load(path, f) ==
  IF path = NoPath \/ ~f.exists THEN [tasks |-> <<>>, next_id |-> 1]
  ELSE LET d == load_items(<<>>, f.payload)
       IN [tasks |-> d, next_id |-> load_next_id(d)]

\* ---------------------------------------------------------------- state
Repos == {"repository", "another"}

VARIABLES
  storage_path,  \* [Repos -> {StoragePath, NoPath}]   self._storage_path
  tasks,         \* [Repos -> dict]                    self._tasks
  next_id,       \* [Repos -> Nat]                     self._next_id
  file,          \* the content of tasks.json, or NoFile
  clock,         \* the next value datetime.utcnow() returns
  last,          \* the call that produced this state and its outcome
  added,         \* [Repos -> Seq(Nat)] ids returned by add_task since __init__/clear
  deleted,       \* [Repos -> SUBSET Nat] ids deleted since __init__/clear
  deleted_ever,  \* [Repos -> SUBSET Nat] ids deleted before or on this object
  wrote,         \* [Repos -> BOOLEAN] the object has written the file
  first_id       \* [Repos -> Nat] max id of the file read by __init__, plus 1; 0 after clear

vars == <<storage_path, tasks, next_id, file, clock, last,
          added, deleted, deleted_ever, wrote, first_id>>

\* What the caller of an operation observes: the exception raised ("ok" when
\* none), the value returned, and whether the call wrote the file.
Call(op, r, task_id, status, saved, result) ==
  [op |-> op, repo |-> r, task_id |-> task_id, fields |-> FALSE,
   status |-> status, saved |-> saved, result |-> result]

\* An update_task call; fields tells whether a keyword argument was given.
UpdateCall(r, task_id, fields, status, saved, result) ==
  [Call("update_task", r, task_id, status, saved, result) EXCEPT !.fields = fields]

\* ---------------------------------------------------------------- inputs
Ids == 1..MaxId
Dates == {DateV(n) : n \in 1..MaxDate}
Paths == {StoragePath, NoPath}
AddTitles == {StrV(<<" ", "a", " ">>), StrV(<<" ", " ">>)}
AddDescriptions == {StrV(<<"x", " ">>)}
AddDueDates == {NoneV, DateV(1)}
ListCompleted == {NoneV, BoolV(TRUE), BoolV(FALSE)}
ListDueBefore == {NoneV} \cup Dates

\* update_task(task_id, **kwargs): the keyword arguments of one call
Kwargs(title, description, due_date, completed) ==
  [title |-> title, description |-> description,
   due_date |-> due_date, completed |-> completed]

NewTitle == StrV(<<"b", " ">>)
BlankTitle == StrV(<<" ">>)
NotADate == StrV(<<"2", "4">>)

\* The calls the command line and the tests make.
UpdateCalls ==
  { Kwargs(NoneV, _SENTINEL, _SENTINEL, NoneV),
    Kwargs(NewTitle, _SENTINEL, _SENTINEL, NoneV),
    Kwargs(BlankTitle, _SENTINEL, _SENTINEL, BoolV(TRUE)),
    Kwargs(NoneV, StrV(<<>>), NoneV, NoneV),
    Kwargs(NoneV, _SENTINEL, DateV(MaxDate), NoneV),
    Kwargs(NoneV, _SENTINEL, _SENTINEL, BoolV(TRUE)),
    Kwargs(NoneV, _SENTINEL, _SENTINEL, BoolV(FALSE)),
    Kwargs(NewTitle, StrV(<<>>), NotADate, BoolV(TRUE)) }

\* ---------------------------------------------------------------- Init
Init ==
  /\ storage_path = [r \in Repos |-> StoragePath]
  /\ tasks = [r \in Repos |-> <<>>]
  /\ next_id = [r \in Repos |-> 1]
  /\ file = NoFile
  /\ clock = 1
  /\ last = Call("start", "repository", 0, "ok", FALSE, <<>>)
  /\ added = [r \in Repos |-> <<>>]
  /\ deleted = [r \in Repos |-> {}]
  /\ deleted_ever = [r \in Repos |-> {}]
  /\ wrote = [r \in Repos |-> FALSE]
  /\ first_id = [r \in Repos |-> 1]

\* ---------------------------------------------------------------- __init__
\* TaskRepository(path): a new object takes the place of r.
init(r, path) ==
  LET l == load(path, file) IN
  /\ storage_path' = [storage_path EXCEPT ![r] = path]
  /\ tasks' = [tasks EXCEPT ![r] = l.tasks]
  /\ next_id' = [next_id EXCEPT ![r] = l.next_id]
  /\ last' = Call("__init__", r, 0, "ok", FALSE, <<>>)
  /\ added' = [added EXCEPT ![r] = <<>>]
  /\ deleted' = [deleted EXCEPT ![r] = {}]
  /\ deleted_ever' = [deleted_ever EXCEPT ![r] = UNION {deleted_ever[q] : q \in Repos}]
  /\ wrote' = [wrote EXCEPT ![r] = FALSE]
  /\ first_id' = [first_id EXCEPT ![r] =
        IF path # NoPath /\ file.exists /\ file.payload # <<>>
        THEN 1 + CHOOSE m \in 1..(MaxId + 1) :
                    /\ \E k \in DOMAIN file.payload : file.payload[k].id = m
                    /\ \A k \in DOMAIN file.payload : file.payload[k].id <= m
        ELSE 1]
  /\ UNCHANGED <<file, clock>>

\* ---------------------------------------------------------------- add_task
\* variant: the check is missing
title_is_empty_never(title) == FALSE
title_is_empty(title) == title = <<>>

\* variant: the counter is not advanced
add_next_id_same(n) == n
add_next_id(n) == n + 1

add_task(r, title, description, due_date) ==
  LET stripped == strip(title.chars)
  IN
  IF title_is_empty(stripped)
  THEN /\ last' = Call("add_task", r, 0, "ValueError", FALSE, <<>>)
       /\ UNCHANGED <<storage_path, tasks, next_id, file, clock,
                      added, deleted, deleted_ever, wrote, first_id>>
  ELSE /\ next_id[r] <= MaxId
       /\ clock < MaxTime
       /\ LET now == clock
              task == Task(next_id[r], stripped,
                           strip(py_or(description, StrV(<<>>)).chars),
                           FALSE, due_date, now, now)
              d == dict_set(tasks[r], task.id, task)
          IN /\ tasks' = [tasks EXCEPT ![r] = d]
             /\ next_id' = [next_id EXCEPT ![r] = add_next_id(next_id[r])]
             /\ file' = save(storage_path[r], d, file)
             /\ clock' = clock + 1
             /\ last' = Call("add_task", r, 0, "ok",
                             storage_path[r] # NoPath, <<task>>)
             /\ added' = [added EXCEPT ![r] = Append(added[r], task.id)]
             /\ wrote' = [wrote EXCEPT ![r] = wrote[r] \/ storage_path[r] # NoPath]
             /\ UNCHANGED <<storage_path, deleted, deleted_ever, first_id>>

\* ---------------------------------------------------------------- get_task
\* The outcome of get_task: the task, or KeyError(task_id).
get_task(d, task_id) ==
  IF dict_has(d, task_id)
  THEN [status |-> "ok", result |-> <<dict_get(d, task_id)>>]
  ELSE [status |-> "KeyError", result |-> <<>>]

GetTask(r, task_id) ==
  LET g == get_task(tasks[r], task_id) IN
  /\ last' = Call("get_task", r, task_id, g.status, FALSE, g.result)
  /\ UNCHANGED <<storage_path, tasks, next_id, file, clock,
                 added, deleted, deleted_ever, wrote, first_id>>

ListTasks(r, completed, due_before) ==
  /\ last' = Call("list_tasks", r, 0, "ok", FALSE,
                  list_tasks(tasks[r], completed, due_before))
  /\ UNCHANGED <<storage_path, tasks, next_id, file, clock,
                 added, deleted, deleted_ever, wrote, first_id>>

\* ---------------------------------------------------------------- update_task
\* The body of update_task works on one Task object, the one held in
\* self._tasks, and assigns its fields one `if` block after the other.  st is
\* the position after a block: the object, the `changed` flag and the
\* exception raised so far ("" when none).
\* variant: changed = True
changed_initially_true == TRUE
changed_initially == FALSE

title_supplied(title) == title # NoneV

\* variant: `if description:`
description_supplied_truthy(description) ==
  description.kind = "str" /\ description.chars # <<>>
description_supplied(description) == description # _SENTINEL

due_date_supplied(due_date) == due_date # _SENTINEL

completed_supplied(completed) == completed # NoneV

apply_title(st, title) ==
  IF st.raised # "" \/ ~title_supplied(title) THEN st
  ELSE LET new_title == strip(title.chars) IN
       IF title_is_empty(new_title) THEN [st EXCEPT !.raised = "ValueError"]
       ELSE [st EXCEPT !.task.title = new_title, !.changed = TRUE]

apply_description(st, description) ==
  IF st.raised # "" \/ ~description_supplied(description) THEN st
  ELSE [st EXCEPT !.task.description = strip(py_or(description, StrV(<<>>)).chars),
                  !.changed = TRUE]

apply_due_date(st, due_date) ==
  IF st.raised # "" \/ ~due_date_supplied(due_date) THEN st
  ELSE IF due_date = NoneV
       THEN [st EXCEPT !.task.due_date = NoneV, !.changed = TRUE]
  ELSE IF isinstance_date(due_date)
       THEN [st EXCEPT !.task.due_date = due_date, !.changed = TRUE]
  ELSE [st EXCEPT !.raised = "TypeError"]

apply_completed(st, completed) ==
  IF st.raised # "" \/ ~completed_supplied(completed) THEN st
  ELSE [st EXCEPT !.task.completed = completed.value, !.changed = TRUE]

update_fields(task, title, description, due_date, completed) ==
  apply_completed(
    apply_due_date(
      apply_description(
        apply_title([task |-> task, changed |-> changed_initially, raised |-> ""],
                    title),
        description),
      due_date),
    completed)

update_task(r, task_id, title, description, due_date, completed) ==
  LET g == get_task(tasks[r], task_id)
      fields == \/ title # NoneV
                \/ description # _SENTINEL
                \/ due_date # _SENTINEL
                \/ completed # NoneV
  IN
  IF g.status # "ok"
  THEN /\ last' = UpdateCall(r, task_id, fields, g.status, FALSE, <<>>)
       /\ UNCHANGED <<storage_path, tasks, next_id, file, clock,
                      added, deleted, deleted_ever, wrote, first_id>>
  ELSE
  LET st == update_fields(g.result[1], title, description, due_date, completed) IN
  IF st.raised # ""
  THEN \* the exception leaves the object as the blocks before it assigned it
       /\ tasks' = [tasks EXCEPT ![r] = dict_set(tasks[r], task_id, st.task)]
       /\ last' = UpdateCall(r, task_id, fields, st.raised, FALSE, <<>>)
       /\ UNCHANGED <<storage_path, next_id, file, clock,
                      added, deleted, deleted_ever, wrote, first_id>>
  ELSE IF ~st.changed
  THEN /\ last' = UpdateCall(r, task_id, fields, "ok", FALSE, <<st.task>>)
       /\ UNCHANGED <<storage_path, tasks, next_id, file, clock,
                      added, deleted, deleted_ever, wrote, first_id>>
  ELSE /\ clock < MaxTime
       /\ LET task == [st.task EXCEPT !.updated_at = clock]
              d == dict_set(tasks[r], task_id, task)
          IN /\ tasks' = [tasks EXCEPT ![r] = d]
             /\ file' = save(storage_path[r], d, file)
             /\ clock' = clock + 1
             /\ last' = UpdateCall(r, task_id, fields, "ok",
                             storage_path[r] # NoPath, <<task>>)
             /\ wrote' = [wrote EXCEPT ![r] = wrote[r] \/ storage_path[r] # NoPath]
             /\ UNCHANGED <<storage_path, next_id, added, deleted,
                            deleted_ever, first_id>>

\* ---------------------------------------------------------------- delete_task
delete_task(r, task_id) ==
  IF ~dict_has(tasks[r], task_id)
  THEN /\ last' = Call("delete_task", r, task_id, "KeyError", FALSE, <<>>)
       /\ UNCHANGED <<storage_path, tasks, next_id, file, clock,
                      added, deleted, deleted_ever, wrote, first_id>>
  ELSE LET d == dict_del(tasks[r], task_id) IN
       /\ tasks' = [tasks EXCEPT ![r] = d]
       /\ file' = save(storage_path[r], d, file)
       /\ last' = Call("delete_task", r, task_id, "ok",
                       storage_path[r] # NoPath, <<>>)
       /\ deleted' = [deleted EXCEPT ![r] = @ \cup {task_id}]
       /\ deleted_ever' = [deleted_ever EXCEPT ![r] = @ \cup {task_id}]
       /\ wrote' = [wrote EXCEPT ![r] = wrote[r] \/ storage_path[r] # NoPath]
       /\ UNCHANGED <<storage_path, next_id, clock, added, first_id>>

\* ---------------------------------------------------------------- clear
clear(r) ==
  /\ tasks' = [tasks EXCEPT ![r] = <<>>]
  /\ next_id' = [next_id EXCEPT ![r] = 1]
  /\ file' = IF storage_path[r] # NoPath THEN NoFile ELSE file
  /\ last' = Call("clear", r, 0, "ok", FALSE, <<>>)
  /\ added' = [added EXCEPT ![r] = <<>>]
  /\ deleted' = [deleted EXCEPT ![r] = {}]
  /\ first_id' = [first_id EXCEPT ![r] = 0]
  /\ UNCHANGED <<storage_path, clock, deleted_ever, wrote>>

\* ---------------------------------------------------------------- Next
\* One owner of the file: every call is made on the object "repository".
Writers == {"repository"}

Construct(R, paths) == \E r \in R, path \in paths : init(r, path)
Add(R, titles, due_dates) ==
  \E r \in R, title \in titles, description \in AddDescriptions,
     due_date \in due_dates : add_task(r, title, description, due_date)
Get(R) == \E r \in R, task_id \in Ids : GetTask(r, task_id)
List(R) == \E r \in R, completed \in ListCompleted, due_before \in ListDueBefore :
              ListTasks(r, completed, due_before)
Update(R, calls) ==
  \E r \in R, task_id \in Ids, k \in calls :
     update_task(r, task_id, k.title, k.description, k.due_date, k.completed)
Delete(R) == \E r \in R, task_id \in Ids : delete_task(r, task_id)
Clear(R) == \E r \in R : clear(r)

Next ==
  \/ Construct(Writers, Paths)
  \/ Add(Writers, AddTitles, AddDueDates)
  \/ Get(Writers)
  \/ List(Writers)
  \/ Update(Writers, UpdateCalls)
  \/ Delete(Writers)
  \/ Clear(Writers)

Spec == Init /\ [][Next]_vars

\* Two objects bound to the same file, their calls interleaved.
StatusCalls == {Kwargs(NoneV, _SENTINEL, _SENTINEL, BoolV(TRUE))}

NextTwo ==
  \/ Construct(Repos, {StoragePath})
  \/ Add(Repos, {StrV(<<" ", "a", " ">>)}, {NoneV})
  \/ Update(Repos, StatusCalls)
  \/ Delete(Repos)

SpecTwo == Init /\ [][NextTwo]_vars

\* ---------------------------------------------------------------- claims
Range(q) == {q[k] : k \in DOMAIN q}
Ascending(q) == \A i, j \in DOMAIN q : i < j => q[i].id < q[j].id
Serialised(d) ==
  LET l == list_tasks(d, NoneV, NoneV) IN [k \in DOMAIN l |-> to_dict(l[k])]

\* C1: an update_task call that raises ValueError or TypeError leaves the
\* collection, the counter and the file as they were and does not save.
C1_FailedUpdateChangesNothing ==
  [][(last'.op = "update_task" /\ last'.status \in {"ValueError", "TypeError"})
       => /\ tasks' = tasks
          /\ next_id' = next_id
          /\ file' = file
          /\ ~last'.saved]_vars

\* C2: the ids add_task returns on one object are strictly increasing in call
\* order, whatever get, list, update, delete and failed add calls come in
\* between, and no two tasks held by an object share an id.
C2_IdsDistinctIncreasing ==
  \A r \in Repos :
    /\ \A i, j \in DOMAIN added[r] : i < j => added[r][i] < added[r][j]
    /\ \A i, j \in DOMAIN tasks[r] : i # j => tasks[r][i].id # tasks[r][j].id

C2_Witness ==
  \E r \in Repos :
    /\ Len(added[r]) >= 2
    /\ deleted[r] # {}
    /\ tasks[r] # <<>>

\* C3 as stated: an id deleted on an object, or deleted before the object was
\* constructed from the file, is never held again, clear calls and later
\* constructions included.
C3_DeletedNeverReturns ==
  \A r \in Repos : \A id \in deleted_ever[r] :
    /\ get_task(tasks[r], id).status = "KeyError"
    /\ \A t \in Range(list_tasks(tasks[r], NoneV, NoneV)) : t.id # id

\* C3 amended: an id deleted on an object is not held by that object, and
\* get_task fails for it, for as long as the object is not cleared.
C3_DeletedStaysGone ==
  \A r \in Repos : \A id \in deleted[r] :
    /\ get_task(tasks[r], id).status = "KeyError"
    /\ \A t \in Range(list_tasks(tasks[r], NoneV, NoneV)) : t.id # id

C3_Witness ==
  /\ last.op = "add_task"
  /\ last.status = "ok"
  /\ deleted[last.repo] # {}
  /\ tasks[last.repo] # <<>>

\* C4: after every successful add, changing update and delete of a
\* file-backed object the file holds the whole collection in ascending id
\* order, and loading the file gives back the collection, field by field.
C4_FileRoundTrip ==
  LET r == last.repo IN
  ( /\ last.status = "ok"
    /\ storage_path[r] # NoPath
    /\ \/ last.op \in {"add_task", "delete_task"}
       \/ last.op = "update_task" /\ last.fields )
  => /\ file.exists
     /\ Ascending(file.payload)
     /\ Len(file.payload) = Len(tasks[r])
     /\ list_tasks(load(storage_path[r], file).tasks, NoneV, NoneV)
          = list_tasks(tasks[r], NoneV, NoneV)
     /\ load(storage_path[r], file).tasks = tasks[r]

C4_Witness ==
  /\ last.op = "delete_task"
  /\ last.status = "ok"
  /\ storage_path[last.repo] # NoPath
  /\ Len(file.payload) = 1
  /\ file.payload[1].due_date # NoneV

\* C5: update_task on a held id with no field supplied returns the task as
\* it is, changes nothing (updated_at included) and does not write the file.
C5_NoFieldUpdateIsNoOp ==
  [][last'.op = "update_task" =>
       \A r \in Repos, id \in Ids :
         ( /\ dict_has(tasks[r], id)
           /\ update_task(r, id, NoneV, _SENTINEL, _SENTINEL, NoneV) )
         => /\ UNCHANGED <<storage_path, tasks, next_id, file, clock>>
            /\ last'.status = "ok"
            /\ ~last'.saved
            /\ last'.result = <<dict_get(tasks[r], id)>>]_vars

C5_Witness ==
  /\ last.op = "update_task"
  /\ last.status = "ok"
  /\ ~last.fields
  /\ ~last.saved
  /\ storage_path[last.repo] # NoPath
  /\ file.exists
  /\ last.result[1].updated_at < clock - 1

\* C6: list_tasks returns exactly the held tasks that satisfy every supplied
\* filter, each once, in ascending id order.
C6_ListFilters ==
  \A r \in Repos, c \in ListCompleted, d \in ListDueBefore :
    LET l == list_tasks(tasks[r], c, d)
        want == { t \in Range(tasks[r]) :
                    /\ c = NoneV \/ t.completed = c.value
                    /\ d = NoneV \/ ( /\ t.due_date # NoneV
                                      /\ t.due_date.ordinal <= d.ordinal ) }
    IN /\ Range(l) = want
       /\ Len(l) = Cardinality(want)
       /\ Ascending(l)

C6_Witness ==
  /\ last.op = "list_tasks"
  /\ Len(last.result) = 1
  /\ Len(tasks[last.repo]) = 2
  /\ last.result[1].due_date # NoneV
  /\ \E t \in Range(tasks[last.repo]) : t.due_date = NoneV

\* C7: add_task with a title that is empty after trimming raises ValueError
\* and changes nothing; a successful add_task gets the counter's value as id.
C7_BlankAddRejected ==
  [][last'.op = "add_task" =>
       \A r \in Repos, title \in AddTitles, description \in AddDescriptions,
          due_date \in AddDueDates :
         add_task(r, title, description, due_date)
         => IF strip(title.chars) = <<>>
            THEN /\ last'.status = "ValueError"
                 /\ ~last'.saved
                 /\ UNCHANGED <<storage_path, tasks, next_id, file, clock>>
            ELSE /\ last'.status = "ok"
                 /\ last'.result[1].id = next_id[r]]_vars

C7_Witness ==
  /\ last.op = "add_task"
  /\ last.status = "ValueError"
  /\ tasks[last.repo] # <<>>
  /\ file.exists

C9_LastWriterWins ==
  ( /\ \A r \in Repos : storage_path[r] # NoPath /\ wrote[r]
    /\ last.saved )
  => /\ last.status = "ok"
     /\ file.exists
     /\ file.payload = Serialised(tasks[last.repo])

\* the other object's change is not in the file
C9_Witness ==
  /\ \A r \in Repos : storage_path[r] # NoPath /\ wrote[r]
  /\ last.saved
  /\ \E o \in Repos \ {last.repo} :
       \E t \in Range(tasks[o]) : to_dict(t) \notin Range(file.payload)

\* C10: __init__ sets the counter to the largest id in the file plus 1, or to
\* 1 without a file, a path or a task, and the first add_task gets that id.
C10_NextIdAfterInit ==
  \A r \in Repos :
    first_id[r] # 0 =>
      IF added[r] = <<>> THEN next_id[r] = first_id[r]
      ELSE added[r][1] = first_id[r]

C10_Witness ==
  \E r \in Repos :
    /\ first_id[r] = 2
    /\ added[r] = <<2>>
    /\ last.op = "add_task"

====
